---- MODULE Spec2Model ----
(***************************************************************************)
(* Gmail-n-Calendar-Bot: the per-user OAuth2 credential lifecycle of       *)
(* src/mastra/integrations/googleAuth.ts and the free-slot search of       *)
(* getCalendarAvailabilityTool in src/mastra/tools/googleCalendarTools.ts. *)
(*                                                                         *)
(* Two specifications share the module: SpecAuth runs the credential       *)
(* operations (interleaved at their awaits), SpecAvail runs one            *)
(* availability request from its inputs to its result.  SpecIsolation is   *)
(* SpecAuth in a longer run with a working file system, SpecAvailFair is   *)
(* SpecAvail with the loop running on, and SpecChat runs the message       *)
(* handler of src/mastra/integrations/telegram.ts.                         *)
(*                                                                         *)
(* Time unit: one minute.  The credential part counts minutes on a small   *)
(* clock; the availability part counts minutes from local midnight of the  *)
(* first day (the process time zone has no DST change in the range).       *)
(***************************************************************************)
EXTENDS Integers, FiniteSets, Sequences, TLC

VARIABLES
    \* ---- googleAuth.ts ----
    now,               \* Date.now(), in minutes
    heap,              \* the token-mapping objects: object id -> (userId -> Credentials)
    userTokensCache,   \* the object id the module variable userTokensCache refers to
    disk,              \* user-tokens.json: [kind, data]
    credentialsFile,   \* google-credentials.json: "ok" or "missing"
    credentialsCache,  \* TRUE once loadCredentials has cached the client configuration
    procs,             \* the calls in flight and their last results
    calls,             \* calls started so far
    budget,            \* calls the run may start
    diskReads,         \* calls of fs.readFileSync on user-tokens.json so far
    \* ---- getCalendarAvailabilityTool ----
    req,               \* the request: startDate, endDate, duration, minStartHour,
                       \* maxEndHour, userId
    phase,             \* position in execute
    busyTimes,         \* the busy intervals mapped from the listed events
    currentTime,       \* the cursor of the search loop
    availableSlots,    \* the slots accepted so far (a sequence)
    result,            \* the returned sequence
    iterations,        \* loop passes made
    evaluations,       \* loop passes that reached the overlap test
    \* ---- telegram.ts ----
    awaitingAuthCodeUsers,  \* the chats an authorization code is awaited from
    userAgents,        \* chat -> the agent key set for it, "unset" without an entry
    handlers,          \* the handleMessage calls in flight and their last results
    messages,          \* messages received so far
    urlsSent,          \* chat -> authorization URLs sendMessage delivered to it
    exchanges          \* chat -> calls of exchangeCodeForToken made for it

authVars  == <<now, heap, userTokensCache, disk, credentialsFile, credentialsCache, procs,
               calls, budget, diskReads>>
availVars == <<req, phase, busyTimes, currentTime, availableSlots, result, iterations, evaluations>>
chatVars  == <<awaitingAuthCodeUsers, userAgents, handlers, messages, urlsSent, exchanges>>
vars      == <<authVars, availVars, chatVars>>

----------------------------------------------------------------------------
(* Bounds of the model *)

MaxCalls == 2     \* calls of getAuthenticatedClient and exchangeCodeForToken in a run
MaxTime == 1      \* the clock runs 0..MaxTime
MaxDays == 1      \* the search range ends at most MaxDays days after its first day
MaxBusy == 2      \* busy intervals in the calendar's answer
MaxMessages == 3  \* messages the bot receives in a run

Users == {"u1", "u2"}
\* the slots for calls in flight at the same time
Procs == {1, 2}

----------------------------------------------------------------------------
(* Credentials (google-auth-library): the fields the code reads.  A field  *)
(* is Absent (the key is not in the object), Falsy (present but null or    *)
(* empty) or a positive value.                                             *)

Absent == 0 - 1
Falsy  == 0

Fields == {"access_token", "refresh_token", "expiry_date"}

NoCredentials == [access_token |-> Absent, refresh_token |-> Absent, expiry_date |-> Absent]

Truthy(v) == v > 0

\* const expiryBuffer = 5 * 60 * 1000, in minutes
expiryBuffer == 5

\* the lifetimes (expires_in) the authorization server hands out, in minutes
ExpiresIn == {1, expiryBuffer}

Empty == [u \in {} |-> NoCredentials]

Put(m, u, c) == [x \in (DOMAIN m) \cup {u} |-> IF x = u THEN c ELSE m[x]]

\* faulty variant: the entry is left in the mapping
DelKeepsEntry(m, u) == m

\* delete m[u]
Del(m, u) == [x \in (DOMAIN m) \ {u} |-> m[x]]

\* faulty variant: the response replaces the stored credential
MergeKeepsNothing(userToken, credentials) == credentials

\* { ...userToken, ...credentials }: every key of credentials overrides

Merge(userToken, credentials) ==
    [f \in Fields |-> IF credentials[f] # Absent THEN credentials[f] ELSE userToken[f]]

ObjIds == 0 .. (Cardinality(Procs) + 1)

----------------------------------------------------------------------------
(* The durable file and the cache *)

NoFile    == [kind |-> "nofile", data |-> Empty]
Corrupt   == [kind |-> "corrupt", data |-> Empty]
Json(m)   == [kind |-> "json", data |-> m]

\* what a previous run of the program can have left in user-tokens.json
StoredCredentials == [access_token |-> 1, refresh_token |-> 1, expiry_date |-> expiryBuffer]

InitDisks ==
    {NoFile, Corrupt, Json(Empty), Json(Put(Empty, "u1", StoredCredentials))}

\* the outcomes of fs.writeFileSync: written; refused, file untouched; failed
\* after the file was truncated
WriteOutcomes == {"ok", "refused", "partial"}

Idle ==
    [pc |-> "idle", op |-> "none", user |-> "u1", call |-> 0, callNow |-> 0,
     userToken |-> NoCredentials, allTokens |-> Absent, resp |-> NoCredentials,
     ret |-> "none", client |-> NoCredentials, outcome |-> "none", write |-> "none",
     load |-> "none", before |-> Empty]

\* the objects some in-flight call other than p still refers to
HeldByOthers(p) == {procs[q].allTokens : q \in {x \in Procs \ {p} : procs[x].pc = "refreshing"}}

Min(S) == CHOOSE x \in S : \A y \in S : x <= y

Fresh(used) == Min(ObjIds \ used)

\* The heap after a step that leaves heap h, cache c and calls pr: objects
\* nothing refers to any more are dropped, and the live ones are numbered in
\* the order cache, slot 1, slot 2, ... (object identity is all that matters).
\* Each \E over a singleton names a value that is computed once.
Settle(h, c, pr) ==
    \E hv \in {h}, cv \in {c}, pv \in {pr} :
    \E ref \in {[i \in {0} \cup Procs |->
                    IF i \in Procs /\ pv[i].pc = "refreshing" THEN pv[i].allTokens ELSE cv]} :
    \E live \in {{ref[i] : i \in {0} \cup Procs}} :
    \E first \in {[x \in live |-> Min({i \in {0} \cup Procs : ref[i] = x})]} :
    \E rank \in {[x \in live |-> Cardinality({y \in live : first[y] < first[x]})]} :
        /\ heap' = [i \in ObjIds |->
                       IF \E x \in live : rank[x] = i
                       THEN hv[CHOOSE x \in live : rank[x] = i] ELSE Empty]
        /\ userTokensCache' = rank[cv]
        /\ procs' = [q \in Procs |->
                       IF pv[q].pc = "refreshing"
                       THEN [pv[q] EXCEPT !.allTokens = rank[pv[q].allTokens]]
                       ELSE pv[q]]

\* loadCredentials, as createOAuth2Client uses it: FALSE when it throws
CredentialsLoadable == credentialsCache \/ credentialsFile = "ok"

\* loadUserTokens(), called by p: the heap and cache it leaves, the object it
\* returns, and how it got it: from the cache (line 39), from the file (lines
\* 43-45), after a failed read or parse (lines 47-49), with no file (52-53)
loadUserTokens(p) ==
    IF DOMAIN heap[userTokensCache] # {}
    THEN [heap |-> heap, cache |-> userTokensCache, ret |-> userTokensCache,
          how |-> "cache"]
    ELSE LET f1 == Fresh(HeldByOthers(p) \cup {userTokensCache})
             f2 == Fresh(HeldByOthers(p) \cup {userTokensCache, f1})
         IN  IF disk.kind = "json"
             THEN [heap |-> [heap EXCEPT ![f1] = disk.data], cache |-> f1, ret |-> f1,
                   how |-> "file"]
             ELSE [heap |-> [heap EXCEPT ![f1] = Empty, ![f2] = Empty],
                   cache |-> f1, ret |-> f2,
                   how |-> IF disk.kind = "corrupt" THEN "unreadable" ELSE "nofile"]

\* fs.readFileSync(USER_TOKENS_PATH) was called by a load that went this way
ReadsFile(how) == how \in {"file", "unreadable"}

\* faulty variant: the cached object is written, not the one passed in
saveUserTokensWritesCache(h, c, tokens, w) ==
    IF w = "ok" THEN [cache |-> tokens, disk |-> Json(h[c])]
    ELSE IF w = "partial" THEN [cache |-> c, disk |-> Corrupt]
    ELSE [cache |-> c, disk |-> disk]

\* saveUserTokens(tokens) on heap h with cache c: the cache and file it leaves
saveUserTokens(h, c, tokens, w) ==
    IF w = "ok" THEN [cache |-> tokens, disk |-> Json(h[tokens])]
    ELSE IF w = "partial" THEN [cache |-> c, disk |-> Corrupt]
    ELSE [cache |-> c, disk |-> disk]

\* the mapping loadUserTokens() would hand out, were it called in this state
StoreView ==
    IF DOMAIN heap[userTokensCache] # {} THEN heap[userTokensCache]
    ELSE IF disk.kind = "json" THEN disk.data ELSE Empty

\* loadUserTokens()[u] is a credential, were it evaluated in this state
Lookup(u) ==
    IF DOMAIN heap[userTokensCache] # {} THEN u \in DOMAIN heap[userTokensCache]
    ELSE disk.kind = "json" /\ u \in DOMAIN disk.data

----------------------------------------------------------------------------
(* getAuthenticatedClient *)

\* faulty variant: a credential that expires exactly at the buffer is refreshed
NeedsRefreshAtBuffer(userToken, t) ==
    Truthy(userToken.expiry_date) /\ userToken.expiry_date <= t + expiryBuffer

\* userToken.expiry_date && userToken.expiry_date < (Date.now() + expiryBuffer)
NeedsRefresh(userToken, t) ==
    Truthy(userToken.expiry_date) /\ userToken.expiry_date < t + expiryBuffer

\* A continuation runs to completion and its caller sees what it returned
\* before another continuation runs: a call that has returned is taken out
\* (Return) before the next step.
Quiet == \A q \in Procs : procs[q].pc # "done"

\* a new call takes the first free slot
CanStart(p) ==
    /\ Quiet
    /\ procs[p].pc = "idle"
    /\ \A q \in Procs : q < p => procs[q].pc # "idle"
    /\ calls < budget

\* the token string the authorization server issues to call k: a new one each
\* time, none of them the stored one
Issued(k) == k + 1

\* faulty variant: the client is built before the credential is looked at
GAC_EntryClientFirst(hasToken, loadable) ==
    IF ~loadable THEN "throw" ELSE IF ~hasToken THEN "null" ELSE "proceed"

\* lines 107-112: null without a credential, then createOAuth2Client, which
\* throws when the client configuration cannot be loaded
GAC_Entry(hasToken, loadable) ==
    IF ~hasToken THEN "null" ELSE IF ~loadable THEN "throw" ELSE "proceed"

\* lines 104-116: up to the await of refreshAccessToken, or the return
GAC_Start(p, u) ==
    /\ CanStart(p)
    /\ LET L      == loadUserTokens(p)
           tokens == L.heap[L.ret]
           call   == [Idle EXCEPT !.op = "getAuthenticatedClient", !.user = u,
                                  !.call = calls + 1, !.callNow = now, !.load = L.how]
           entry  == GAC_Entry(u \in DOMAIN tokens, CredentialsLoadable)
       IN  /\ diskReads' = IF ReadsFile(L.how) THEN diskReads + 1 ELSE diskReads
           /\ IF entry = "null"
              THEN /\ Settle(L.heap, L.cache, [procs EXCEPT ![p] =
                          [call EXCEPT !.pc = "done", !.ret = "null", !.outcome = "noToken"]])
                   /\ UNCHANGED credentialsCache
              ELSE IF entry = "throw"
              THEN /\ Settle(L.heap, L.cache, [procs EXCEPT ![p] =
                          [call EXCEPT !.pc = "done", !.ret = "throw", !.outcome = "throw"]])
                   /\ UNCHANGED credentialsCache
              ELSE /\ credentialsCache' = TRUE
                   /\ IF NeedsRefresh(tokens[u], now)
                      THEN Settle(L.heap, L.cache, [procs EXCEPT ![p] =
                               [call EXCEPT !.pc = "refreshing", !.userToken = tokens[u],
                                            !.allTokens = L.ret, !.load = "none"]])
                      ELSE Settle(L.heap, L.cache, [procs EXCEPT ![p] =
                               [call EXCEPT !.pc = "done", !.userToken = tokens[u],
                                            !.ret = "client", !.client = tokens[u],
                                            !.outcome = "valid"]])
    /\ calls' = calls + 1
    /\ UNCHANGED <<now, disk, credentialsFile, budget, availVars, chatVars>>

\* what refreshAccessToken can resolve to for call k at time t
RefreshResponses(k, t) ==
    [access_token : {Absent, Issued(k)},
     refresh_token : {Absent, Issued(k)},
     expiry_date : {Absent} \cup {t + d : d \in ExpiresIn}]

\* lines 119-127: the refresh resolved
GAC_RefreshOk(p, credentials, w) ==
    /\ Quiet
    /\ procs[p].pc = "refreshing"
    /\ credentials \in RefreshResponses(procs[p].call, now)
    /\ LET me            == procs[p]
           updatedTokens == Merge(me.userToken, credentials)
           h             == [heap EXCEPT ![me.allTokens] = Put(@, me.user, updatedTokens)]
           S             == saveUserTokens(h, userTokensCache, me.allTokens, w)
       IN  /\ Settle(h, S.cache, [procs EXCEPT ![p] =
                  [me EXCEPT !.pc = "done", !.resp = credentials, !.ret = "client",
                             !.client = updatedTokens, !.outcome = "refreshed",
                             !.write = w, !.before = heap[userTokensCache]]])
           /\ disk' = S.disk
    /\ UNCHANGED <<now, credentialsFile, budget, credentialsCache, calls, diskReads, availVars,
                   chatVars>>

\* lines 128-133: the refresh rejected
GAC_RefreshFail(p, w) ==
    /\ Quiet
    /\ procs[p].pc = "refreshing"
    /\ LET me == procs[p]
           h  == [heap EXCEPT ![me.allTokens] = Del(@, me.user)]
           S  == saveUserTokens(h, userTokensCache, me.allTokens, w)
       IN  /\ Settle(h, S.cache, [procs EXCEPT ![p] =
                  [me EXCEPT !.pc = "done", !.ret = "null", !.outcome = "refreshFailed",
                             !.write = w, !.before = heap[userTokensCache]]])
           /\ disk' = S.disk
    /\ UNCHANGED <<now, credentialsFile, budget, credentialsCache, calls, diskReads, availVars,
                   chatVars>>

----------------------------------------------------------------------------
(* exchangeCodeForToken *)

\* what getToken can resolve to for call k at time t
TokenResponses(k, t) ==
    [access_token : {Absent, Falsy, Issued(k)},
     refresh_token : {Absent, Falsy, Issued(k)},
     expiry_date : {Absent} \cup {t + d : d \in ExpiresIn}]

\* the caller's createOAuth2Client() and lines 80-82, up to the await of getToken
Exchange_Start(p, u) ==
    /\ CanStart(p)
    /\ CredentialsLoadable
    /\ credentialsCache' = TRUE
    /\ procs' = [procs EXCEPT ![p] =
           [Idle EXCEPT !.pc = "exchanging", !.op = "exchangeCodeForToken", !.user = u,
                        !.call = calls + 1, !.callNow = now]]
    /\ calls' = calls + 1
    /\ UNCHANGED <<now, heap, userTokensCache, disk, credentialsFile, budget, diskReads,
                   availVars, chatVars>>

\* lines 83-96: getToken resolved
Exchange_GotTokens(p, tokens) ==
    /\ Quiet
    /\ procs[p].pc = "exchanging"
    /\ tokens \in TokenResponses(procs[p].call, now)
    /\ LET me == procs[p] IN
       IF ~Truthy(tokens.access_token) \/ ~Truthy(tokens.refresh_token)
       THEN /\ procs' = [procs EXCEPT ![p] =
                   [me EXCEPT !.pc = "done", !.ret = "false", !.outcome = "incomplete"]]
            /\ UNCHANGED <<heap, userTokensCache, disk, diskReads>>
       ELSE \E w \in WriteOutcomes :
            LET L == loadUserTokens(p)
                h == [L.heap EXCEPT ![L.ret] = Put(@, me.user, tokens)]
                S == saveUserTokens(h, L.cache, L.ret, w)
            IN  /\ Settle(h, S.cache, [procs EXCEPT ![p] =
                       [me EXCEPT !.pc = "done", !.resp = tokens, !.ret = "true",
                                  !.outcome = "stored", !.write = w, !.load = L.how,
                                  !.before = L.heap[L.cache]]])
                /\ disk' = S.disk
                /\ diskReads' = IF ReadsFile(L.how) THEN diskReads + 1 ELSE diskReads
    /\ UNCHANGED <<now, credentialsFile, budget, credentialsCache, calls, availVars, chatVars>>

\* lines 97-100: getToken rejected
Exchange_Rejected(p) ==
    /\ Quiet
    /\ procs[p].pc = "exchanging"
    /\ procs' = [procs EXCEPT ![p] =
           [@ EXCEPT !.pc = "done", !.ret = "false", !.outcome = "rejected"]]
    /\ UNCHANGED <<now, heap, userTokensCache, disk, credentialsFile, budget, credentialsCache,
                   calls, diskReads, availVars, chatVars>>

\* the caller has the value p returned
Return(p) ==
    /\ procs[p].pc = "done"
    /\ procs' = [procs EXCEPT ![p] = Idle]
    /\ UNCHANGED <<now, heap, userTokensCache, disk, credentialsFile, budget, credentialsCache,
                   calls, diskReads, availVars, chatVars>>

\* time passes
Tick ==
    /\ Quiet
    /\ now < MaxTime
    /\ now' = now + 1
    /\ UNCHANGED <<heap, userTokensCache, disk, credentialsFile, budget, credentialsCache, procs,
                   calls, diskReads, availVars, chatVars>>

---------------------------------------------------------------------------------------------------------------------------------------------------
(* getCalendarAvailabilityTool: dates are minutes from local midnight of   *)
(* day 0; InvalidDate is a string new Date() cannot parse.                 *)

\* setHours(h, 0, 0, 0): an hour is 60 minutes, a day 24 hours
Hour == 60
Day  == 24 * Hour

\* currentTime + 15 * 60 * 1000
Step == 15

\* availableSlots.length < 20
SlotCap == 20

\* availableSlots.slice(0, 10)
ResultCap == 10

InvalidDate == 0 - 1

At(d, h, m) == d * Day + h * Hour + m

StartDates == {InvalidDate, At(0, 8, 0), At(0, 9, 0), At(0, 9, 20), At(0, 16, 40)}

EndDates == {At(0, 8, 0), At(0, 10, 0), At(0, 18, 0)} \cup {At(d, 10, 0) : d \in 1 .. MaxDays}

Durations == {0, 15, 30, 90}

MinStartHours == {9, 17, 24}

MaxEndHours == {9, 10, 17}

\* the userId of the request: missing (empty) or a user's
UserIds == {"", "u1"}

Requests ==
    [startDate : StartDates, endDate : EndDates, duration : Durations,
     minStartHour : MinStartHours, maxEndHour : MaxEndHours, userId : UserIds]

\* the intervals the calendar can answer with: unsorted, overlapping each
\* other, off the 15-minute grid, covering whole days
BusyPool ==
    {[start |-> At(0, 9, 0), end |-> At(0, 10, 0)],
     [start |-> At(0, 9, 30), end |-> At(0, 11, 0)],
     [start |-> At(0, 9, 15), end |-> At(0, 9, 25)],
     [start |-> At(0, 8, 0), end |-> At(0, 18, 0)],
     [start |-> At(0, 16, 0), end |-> At(1, 9, 20)]}
    \cup {[start |-> At(d, 0, 0), end |-> At(d + 1, 0, 0)] : d \in 1 .. MaxDays}

BusySets == {B \in SUBSET BusyPool : Cardinality(B) <= MaxBusy}

\* new Date(t) with setHours(h, 0, 0, 0)
SetHours(t, h) == (t \div Day) * Day + h * Hour

\* the inputSchema: duration min(1), the hours min(0).max(23)
SchemaAccepts(r) ==
    /\ r.duration >= 1
    /\ r.minStartHour >= 0 /\ r.minStartHour <= 23
    /\ r.maxEndHour >= 0 /\ r.maxEndHour <= 23

\* faulty variant: the order of the two dates is not checked
ExecuteAcceptsAnyOrder(r) ==
    /\ r.userId # ""
    /\ r.startDate # InvalidDate
    /\ r.endDate # InvalidDate

\* lines 400-411: the checks execute makes itself
ExecuteAccepts(r) ==
    /\ r.userId # ""
    /\ r.startDate # InvalidDate
    /\ r.endDate # InvalidDate
    /\ ~(r.endDate <= r.startDate)

\* the schema and lines 400-411
Validate ==
    /\ phase = "start"
    /\ phase' = IF SchemaAccepts(req) /\ ExecuteAccepts(req) THEN "auth" ELSE "rejected"
    /\ UNCHANGED <<req, busyTimes, currentTime, availableSlots, result, iterations,
                   evaluations, authVars, chatVars>>

\* lines 414-417: getCalendarService resolved, with a service or with null
GetService(service) ==
    /\ phase = "auth"
    /\ phase' = IF service THEN "list" ELSE "authRequired"
    /\ UNCHANGED <<req, busyTimes, currentTime, availableSlots, result, iterations,
                   evaluations, authVars, chatVars>>

\* lines 419-442: events.list resolved with events mapped to the intervals B
ListEvents(B) ==
    /\ phase = "list"
    /\ B \in BusySets
    /\ busyTimes' = B
    /\ currentTime' = req.startDate
    /\ availableSlots' = <<>>
    /\ phase' = "loop"
    /\ UNCHANGED <<req, result, iterations, evaluations, authVars, chatVars>>

\* lines 485-491: events.list rejected
ListFailed ==
    /\ phase = "list"
    /\ phase' = "failed"
    /\ UNCHANGED <<req, busyTimes, currentTime, availableSlots, result, iterations,
                   evaluations, authVars, chatVars>>

\* faulty variant: the slot ends one step after its start
slotEndTimeOneStep(t) == t + Step

\* new Date(currentTime.getTime() + durationMs)
slotEndTime(t) == t + req.duration

currentDayStart(t) == SetHours(t, req.minStartHour)

currentDayEnd(t) == SetHours(t, req.maxEndHour)

\* faulty variant: no cap on the accepted slots
WhileConditionNoCap == currentTime < req.endDate

\* currentTime < endDateTime && availableSlots.length < 20
WhileCondition == currentTime < req.endDate /\ Len(availableSlots) < SlotCap

\* the loop body is entered and does not break at line 446
InLoop ==
    /\ phase = "loop"
    /\ WhileCondition
    /\ ~(slotEndTime(currentTime) > req.endDate)

\* faulty variant: the end of the candidate is not tested
OutsideWindowStartOnly(t) == t < currentDayStart(t)

\* currentTime < currentDayStart || slotEndTime > currentDayEnd
OutsideWindow(t) == t < currentDayStart(t) \/ slotEndTime(t) > currentDayEnd(t)

\* faulty variants: only a candidate that starts inside the busy interval, or
\* only a busy interval that starts inside the candidate, counts as overlap
OverlapsStartInside(t, busySlot) == t >= busySlot.start /\ t < busySlot.end

OverlapsBusyStartInside(t, busySlot) ==
    busySlot.start >= t /\ busySlot.start < slotEndTime(t)

\* currentTime < busySlot.end && slotEndTime > busySlot.start
Overlaps(t, busySlot) == t < busySlot.end /\ slotEndTime(t) > busySlot.start

isOverlapping(t) == \E busySlot \in busyTimes : Overlaps(t, busySlot)

Max(S) == CHOOSE x \in S : \A y \in S : y <= x

\* faulty variant: the cursor moves past every busy interval, blocking or not
maxBusyEndTimeOfAll(t) == Max({t} \cup {busySlot.end : busySlot \in busyTimes})

\* faulty variant: the cursor stops at the first end among the blocking intervals
minBusyEndTime(t) ==
    Min({busySlot.end : busySlot \in {b \in busyTimes : Overlaps(t, b)}})

\* lines 472-479
maxBusyEndTime(t) ==
    Max({t} \cup {busySlot.end : busySlot \in {b \in busyTimes : Overlaps(t, b)}})

\* faulty variant: a cursor past the window goes back to the start of its own day's window
JumpToWindowSameDay ==
    /\ InLoop
    /\ OutsideWindow(currentTime)
    /\ currentTime' = currentDayStart(currentTime)
    /\ iterations' = iterations + 1
    /\ UNCHANGED <<req, phase, busyTimes, availableSlots, result, evaluations, authVars, chatVars>>

\* lines 451-459: the cursor is outside the working hours of its day
JumpToWindow ==
    /\ InLoop
    /\ OutsideWindow(currentTime)
    /\ currentTime' = IF currentTime < currentDayStart(currentTime)
                      THEN currentDayStart(currentTime)
                      ELSE currentDayStart(currentTime) + Day
    /\ iterations' = iterations + 1
    /\ UNCHANGED <<req, phase, busyTimes, availableSlots, result, evaluations, authVars, chatVars>>

\* lines 465-470: the candidate is free
AcceptSlot ==
    /\ InLoop
    /\ ~OutsideWindow(currentTime)
    /\ ~isOverlapping(currentTime)
    /\ availableSlots' = Append(availableSlots,
           [start |-> currentTime, end |-> slotEndTime(currentTime)])
    /\ currentTime' = currentTime + Step
    /\ iterations' = iterations + 1
    /\ evaluations' = evaluations + 1
    /\ UNCHANGED <<req, phase, busyTimes, result, authVars, chatVars>>

\* lines 471-481: the candidate is blocked
SkipBusy ==
    /\ InLoop
    /\ ~OutsideWindow(currentTime)
    /\ isOverlapping(currentTime)
    /\ currentTime' = maxBusyEndTime(currentTime)
    /\ iterations' = iterations + 1
    /\ evaluations' = evaluations + 1
    /\ UNCHANGED <<req, phase, busyTimes, availableSlots, result, authVars, chatVars>>

\* faulty variant: nothing is sliced off
ReturnedAll(slots) == slots

\* faulty variant: the slice is handed back newest first
ReturnedNewestFirst(slots) ==
    LET n == IF Len(slots) < ResultCap THEN Len(slots) ELSE ResultCap
    IN  [i \in 1 .. n |-> slots[n + 1 - i]]

\* availableSlots.slice(0, 10)
Returned(slots) ==
    SubSeq(slots, 1, IF Len(slots) < ResultCap THEN Len(slots) ELSE ResultCap)

\* the loop ends (its condition fails, or the break of line 446) and line 484
ReturnSlots ==
    /\ phase = "loop"
    /\ ~InLoop
    /\ result' = Returned(availableSlots)
    /\ phase' = "done"
    /\ UNCHANGED <<req, busyTimes, currentTime, availableSlots, iterations, evaluations,
                   authVars, chatVars>>

----------------------------------------------------------------------------
(* The chat layer at rest *)

Chats == {"c1", "c2"}

\* the slots for handlers in flight at the same time
Handlers == {1, 2}

\* msg.text: its content, its length and whether it starts with '/'.  A
\* message without text (a photo) has length 0.
NoText == [text |-> "", length |-> 0, slash |-> FALSE]

NoHandler ==
    [pc |-> "idle", chat |-> "c1", user |-> "u1", text |-> NoText, route |-> "none",
     client |-> "none", askedFor |-> "none", auth |-> "none", tool |-> "none",
     outcome |-> "none"]

\* no message has arrived
ChatIdle ==
    /\ awaitingAuthCodeUsers = {}
    /\ userAgents = [c \in Chats |-> "unset"]
    /\ handlers = [h \in Handlers |-> NoHandler]
    /\ messages = 0
    /\ urlsSent = [c \in Chats |-> 0]
    /\ exchanges = [c \in Chats |-> 0]

AuthIdle ==
    /\ now = 0
    /\ heap = [i \in ObjIds |-> Empty]
    /\ userTokensCache = 0
    /\ disk = NoFile
    /\ credentialsFile = "ok"
    /\ credentialsCache = FALSE
    /\ procs = [p \in Procs |-> Idle]
    /\ calls = 0
    /\ budget = MaxCalls
    /\ diskReads = 0

InitAvail ==
    /\ req \in Requests
    /\ phase = "start"
    /\ busyTimes = {}
    /\ currentTime = 0
    /\ availableSlots = <<>>
    /\ result = <<>>
    /\ iterations = 0
    /\ evaluations = 0
    /\ AuthIdle
    /\ ChatIdle

NextAvail ==
    \/ Validate
    \/ \E service \in BOOLEAN : GetService(service)
    \/ \E B \in BusySets : ListEvents(B)
    \/ ListFailed
    \/ JumpToWindow
    \/ AcceptSlot
    \/ SkipBusy
    \/ ReturnSlots

SpecAvail == InitAvail /\ [][NextAvail]_vars

\* execute is straight-line code between its awaits: once the events are
\* listed, the loop and the return run without waiting for anything
RunsOn == JumpToWindow \/ AcceptSlot \/ SkipBusy \/ ReturnSlots

SpecAvailFair == SpecAvail /\ WF_vars(RunsOn)

----------------------------------------------------------------------------
(* The credential operations alone *)

AvailIdle ==
    /\ req = [startDate |-> 0, endDate |-> 0, duration |-> 0, minStartHour |-> 0,
              maxEndHour |-> 0, userId |-> ""]
    /\ phase = "off"
    /\ busyTimes = {}
    /\ currentTime = 0
    /\ availableSlots = <<>>
    /\ result = <<>>
    /\ iterations = 0
    /\ evaluations = 0

InitAuth ==
    /\ now = 0
    /\ heap = [i \in ObjIds |-> Empty]
    /\ userTokensCache = 0
    /\ disk \in InitDisks
    /\ credentialsFile \in {"ok", "missing"}
    /\ credentialsCache = FALSE
    /\ procs = [p \in Procs |-> Idle]
    /\ calls = 0
    /\ budget = MaxCalls
    /\ diskReads = 0
    /\ AvailIdle
    /\ ChatIdle

NextAuth ==
    \/ \E p \in Procs, u \in Users : GAC_Start(p, u)
    \/ \E p \in Procs, w \in WriteOutcomes :
           \E c \in RefreshResponses(procs[p].call, now) : GAC_RefreshOk(p, c, w)
    \/ \E p \in Procs, w \in WriteOutcomes : GAC_RefreshFail(p, w)
    \/ \E p \in Procs, u \in Users : Exchange_Start(p, u)
    \/ \E p \in Procs : \E t \in TokenResponses(procs[p].call, now) : Exchange_GotTokens(p, t)
    \/ \E p \in Procs : Exchange_Rejected(p)
    \/ \E p \in Procs : Return(p)
    \/ Tick

SpecAuth == InitAuth /\ [][NextAuth]_vars

\* The same operations in a longer run where nothing but the interleaving
\* varies: user-tokens.json holds the credential of u1, the client
\* configuration is there and every write of the file succeeds.
InitIsolation ==
    /\ now = 0
    /\ heap = [i \in ObjIds |-> Empty]
    /\ userTokensCache = 0
    /\ disk = Json(Put(Empty, "u1", StoredCredentials))
    /\ credentialsFile = "ok"
    /\ credentialsCache = FALSE
    /\ procs = [p \in Procs |-> Idle]
    /\ calls = 0
    /\ budget = MaxCalls + 1
    /\ diskReads = 0
    /\ AvailIdle
    /\ ChatIdle

NextIsolation ==
    \/ \E p \in Procs, u \in Users : GAC_Start(p, u)
    \/ \E p \in Procs :
           \E c \in RefreshResponses(procs[p].call, now) : GAC_RefreshOk(p, c, "ok")
    \/ \E p \in Procs : GAC_RefreshFail(p, "ok")
    \/ \E p \in Procs, u \in Users : Exchange_Start(p, u)
    \/ \E p \in Procs : \E t \in TokenResponses(procs[p].call, now) :
           Exchange_GotTokens(p, t) /\ procs'[p].write \in {"none", "ok"}
    \/ \E p \in Procs : Exchange_Rejected(p)
    \/ \E p \in Procs : Return(p)
    \/ Tick

SpecIsolation == InitIsolation /\ [][NextIsolation]_vars

----------------------------------------------------------------------------
(* telegram.ts: handleMessage and initiateGoogleAuth.  A handler runs from *)
(* the arrival of its message to its first await, and from each await that *)
(* resolves to the next; the handlers of different messages interleave at  *)
(* the awaits.  Of getAuthenticatedClient and exchangeCodeForToken the     *)
(* handler sees what they return; how they come to it is SpecAuth's part.  *)

\* who writes where (msg.chat.id, msg.from.id): c1 is the private chat of u1,
\* c2 a group both users write in
Senders ==
    {[chat |-> "c1", user |-> "u1"], [chat |-> "c2", user |-> "u1"],
     [chat |-> "c2", user |-> "u2"]}

AgentKeys == {"gmailAgent", "googleCalendarAgent", "emailCalendarAgent"}

\* the cases of the switch on text
Commands == {"/start", "/connect_google", "/gmail", "/calendar", "/assistant", "/help"}

\* text.length > 20
CodeLength == 20

Texts ==
    {NoText,
     [text |-> "/start", length |-> 6, slash |-> TRUE],
     [text |-> "/connect_google", length |-> 15, slash |-> TRUE],
     [text |-> "/settings", length |-> 9, slash |-> TRUE],
     [text |-> "/connect_google@gcal_bot", length |-> 24, slash |-> TRUE],
     [text |-> "list my next meeting", length |-> CodeLength, slash |-> FALSE],
     [text |-> "4/0AfJohXl-authorization-code", length |-> 29, slash |-> FALSE]}

\* text is truthy
HasText(t) == t.length > 0

\* line 310: awaitingAuthCodeUsers.has(chatId) && text && text.length > 20
IsAuthCode(awaiting, chat, t) == chat \in awaiting /\ HasText(t) /\ t.length > CodeLength

\* faulty variant: the chat stays in the set
DeleteAwaitingKeeps(awaiting, chat) == awaiting

\* line 312: awaitingAuthCodeUsers.delete(chatId)
DeleteAwaiting(awaiting, chat) == awaiting \ {chat}

\* line 325 and the cases of the switch: text?.startsWith('/') and a case matches
IsCommand(t) == t.slash /\ t.text \in Commands

\* this.userAgents.get(chatId) || "gmailAgent"
currentAgentKey(chat) == IF userAgents[chat] = "unset" THEN "gmailAgent" ELSE userAgents[chat]

\* line 397
requiresGoogle(key) == key \in {"gmailAgent", "googleCalendarAgent", "emailCalendarAgent"}

\* the agent key a switch command sets
AgentOf(text) ==
    IF text = "/calendar" THEN "googleCalendarAgent"
    ELSE IF text = "/assistant" THEN "emailCalendarAgent" ELSE "gmailAgent"

\* what getAuthenticatedClient can come to in this state: a client only with
\* the client configuration, a throw only without it, null in both
AuthOutcomes == IF CredentialsLoadable THEN {"client", "null"} ELSE {"null", "throw"}

\* faulty variant: the message goes on without a client
GateLetsThrough(client) == IF client = "throw" THEN "done" ELSE "thinking"

\* lines 399-405: where the handler goes with what getAuthenticatedClient
\* returned: on to the agent, to the warning, or out with the exception
Gate(client) ==
    IF client = "client" THEN "thinking" ELSE IF client = "null" THEN "sendingGate" ELSE "done"

\* the Gmail and Calendar tools
Tools ==
    {"listEmails", "sendEmail", "deleteEmail", "readEmail", "labelEmail",
     "listEvents", "createEvent", "deleteEvent", "updateEvent", "getAvailability"}

\* getGmailService / getCalendarService: null without a client
ServiceOf(auth) == IF auth = "client" THEN "service" ELSE "null"

\* a tool's execute: "Google Authentication required" is thrown without a
\* service and rethrown by the catch block; an exception out of
\* getAuthenticatedClient is an ordinary failure
ToolResult(auth) ==
    IF auth = "throw" THEN "failed"
    ELSE IF ServiceOf(auth) = "null" THEN "authRequired" ELSE "ran"

\* a handler that has returned is taken out before the next step
QuietChat == \A h \in Handlers : handlers[h].pc # "done"

\* lines 288-405: a message arrives and its handler runs to its first await
handleMessage(h, s, t) ==
    /\ QuietChat
    /\ handlers[h].pc = "idle"
    /\ \A g \in Handlers : g < h => handlers[g].pc # "idle"
    /\ messages < MaxMessages
    /\ messages' = messages + 1
    /\ LET me == [NoHandler EXCEPT !.chat = s.chat, !.user = s.user, !.text = t]
       IN  IF IsAuthCode(awaitingAuthCodeUsers, s.chat, t)
           THEN \* lines 310-315
                /\ awaitingAuthCodeUsers' = DeleteAwaiting(awaitingAuthCodeUsers, s.chat)
                /\ IF CredentialsLoadable
                   THEN /\ credentialsCache' = TRUE
                        /\ exchanges' = [exchanges EXCEPT ![s.chat] = @ + 1]
                        /\ handlers' = [handlers EXCEPT ![h] =
                               [me EXCEPT !.pc = "exchanging", !.route = "code"]]
                   ELSE /\ handlers' = [handlers EXCEPT ![h] =
                               [me EXCEPT !.pc = "done", !.route = "code", !.outcome = "throw"]]
                        /\ UNCHANGED <<credentialsCache, exchanges>>
                /\ UNCHANGED userAgents
           ELSE IF IsCommand(t)
           THEN \* lines 325-388
                /\ IF t.text = "/connect_google"
                   THEN \* initiateGoogleAuth, lines 263-265
                        IF CredentialsLoadable
                        THEN /\ credentialsCache' = TRUE
                             /\ handlers' = [handlers EXCEPT ![h] =
                                    [me EXCEPT !.pc = "sendingUrl", !.route = "command"]]
                        ELSE /\ handlers' = [handlers EXCEPT ![h] =
                                    [me EXCEPT !.pc = "sendingSorry", !.route = "command"]]
                             /\ UNCHANGED credentialsCache
                   ELSE /\ handlers' = [handlers EXCEPT ![h] =
                               [me EXCEPT !.pc = IF t.text = "/start" THEN "sendingStart"
                                                 ELSE "sending",
                                          !.route = "command"]]
                        /\ UNCHANGED credentialsCache
                /\ userAgents' = IF t.text \in {"/gmail", "/calendar", "/assistant"}
                                 THEN [userAgents EXCEPT ![s.chat] = AgentOf(t.text)]
                                 ELSE userAgents
                /\ UNCHANGED <<awaitingAuthCodeUsers, exchanges>>
           ELSE IF ~HasText(t)
           THEN \* lines 391-394
                /\ handlers' = [handlers EXCEPT ![h] =
                       [me EXCEPT !.pc = "done", !.outcome = "returned"]]
                /\ UNCHANGED <<awaitingAuthCodeUsers, userAgents, exchanges, credentialsCache>>
           ELSE \* lines 396-400
                /\ handlers' = [handlers EXCEPT ![h] =
                       IF requiresGoogle(currentAgentKey(s.chat))
                       THEN [me EXCEPT !.pc = "gate", !.askedFor = s.user]
                       ELSE [me EXCEPT !.pc = "thinking"]]
                /\ UNCHANGED <<awaitingAuthCodeUsers, userAgents, exchanges, credentialsCache>>
    /\ UNCHANGED <<now, heap, userTokensCache, disk, credentialsFile, budget, procs, calls,
                   diskReads, urlsSent, availVars>>

\* lines 267-284: sendMessage with the authorization URL resolved or rejected
UrlSent(h, ok) ==
    /\ QuietChat
    /\ handlers[h].pc = "sendingUrl"
    /\ IF ok
       THEN /\ awaitingAuthCodeUsers' = awaitingAuthCodeUsers \cup {handlers[h].chat}
            /\ urlsSent' = [urlsSent EXCEPT ![handlers[h].chat] = @ + 1]
            /\ handlers' = [handlers EXCEPT ![h] =
                   [@ EXCEPT !.pc = "done", !.outcome = "returned"]]
       ELSE /\ handlers' = [handlers EXCEPT ![h] = [@ EXCEPT !.pc = "sendingSorry"]]
            /\ UNCHANGED <<awaitingAuthCodeUsers, urlsSent>>
    /\ UNCHANGED <<authVars, availVars, userAgents, messages, exchanges>>

\* lines 315-322: exchangeCodeForToken resolved, with true or false
ExchangeDone(h, success) ==
    /\ QuietChat
    /\ handlers[h].pc = "exchanging"
    /\ handlers' = [handlers EXCEPT ![h] =
           [@ EXCEPT !.pc = "sendingResult", !.outcome = IF success THEN "connected" ELSE "failed"]]
    /\ UNCHANGED <<authVars, availVars, awaitingAuthCodeUsers, userAgents, messages, urlsSent,
                   exchanges>>

\* the sendMessage a branch ends with resolved or rejected; /start sets the
\* agent after its message went out (line 342)
Sent(h, ok) ==
    /\ QuietChat
    /\ handlers[h].pc \in {"sendingStart", "sending", "sendingSorry", "sendingGate",
                           "sendingResult", "sendingError"}
    /\ userAgents' = IF handlers[h].pc = "sendingStart" /\ ok
                     THEN [userAgents EXCEPT ![handlers[h].chat] = "gmailAgent"]
                     ELSE userAgents
    /\ handlers' = [handlers EXCEPT ![h] =
           [@ EXCEPT !.pc = "done",
                     !.outcome = IF ~ok THEN "throw"
                                 ELSE IF @ = "none" THEN "returned" ELSE @]]
    /\ UNCHANGED <<authVars, availVars, awaitingAuthCodeUsers, messages, urlsSent, exchanges>>

\* lines 399-405: getAuthenticatedClient(userId) resolved or rejected
GateResolved(h, client) ==
    /\ QuietChat
    /\ handlers[h].pc = "gate"
    /\ client \in AuthOutcomes
    /\ credentialsCache' = IF client = "client" THEN TRUE ELSE credentialsCache
    /\ handlers' = [handlers EXCEPT ![h] =
           [@ EXCEPT !.pc = Gate(client), !.client = client,
                     !.outcome = IF client = "throw" THEN "throw" ELSE @]]
    /\ UNCHANGED <<now, heap, userTokensCache, disk, credentialsFile, budget, procs, calls,
                   diskReads, availVars, awaitingAuthCodeUsers, userAgents, messages, urlsSent,
                   exchanges>>

\* lines 408-426: "Thinking..." went out and the text is streamed to the
\* active agent, or the send failed and the catch block answers (lines 507-513)
ThinkingSent(h, ok) ==
    /\ QuietChat
    /\ handlers[h].pc = "thinking"
    /\ handlers' = [handlers EXCEPT ![h] =
           IF ok THEN [@ EXCEPT !.pc = "agent", !.route = "agent"]
           ELSE [@ EXCEPT !.pc = "sendingError"]]
    /\ UNCHANGED <<authVars, availVars, awaitingAuthCodeUsers, userAgents, messages, urlsSent,
                   exchanges>>

\* the agent calls one of its tools, whose execute asks for its service
ToolCall(h, tool, auth) ==
    /\ QuietChat
    /\ handlers[h].pc = "agent"
    /\ handlers[h].auth = "none"
    /\ tool \in Tools
    /\ auth \in AuthOutcomes
    /\ credentialsCache' = IF auth = "client" THEN TRUE ELSE credentialsCache
    /\ handlers' = [handlers EXCEPT ![h] =
           [@ EXCEPT !.auth = auth, !.tool = ToolResult(auth)]]
    /\ UNCHANGED <<now, heap, userTokensCache, disk, credentialsFile, budget, procs, calls,
                   diskReads, availVars, awaitingAuthCodeUsers, userAgents, messages, urlsSent,
                   exchanges>>

\* lines 428-505: the stream ended and the answer is sent
StreamEnds(h) ==
    /\ QuietChat
    /\ handlers[h].pc = "agent"
    /\ handlers' = [handlers EXCEPT ![h] = [@ EXCEPT !.pc = "sending"]]
    /\ UNCHANGED <<authVars, availVars, awaitingAuthCodeUsers, userAgents, messages, urlsSent,
                   exchanges>>

\* the handler's promise is settled
HandlerReturns(h) ==
    /\ handlers[h].pc = "done"
    /\ handlers' = [handlers EXCEPT ![h] = NoHandler]
    /\ UNCHANGED <<authVars, availVars, awaitingAuthCodeUsers, userAgents, messages, urlsSent,
                   exchanges>>

InitChat ==
    /\ now = 0
    /\ heap = [i \in ObjIds |-> Empty]
    /\ userTokensCache = 0
    /\ disk = NoFile
    /\ credentialsFile \in {"ok", "missing"}
    /\ credentialsCache = FALSE
    /\ procs = [p \in Procs |-> Idle]
    /\ calls = 0
    /\ budget = MaxCalls
    /\ diskReads = 0
    /\ AvailIdle
    /\ ChatIdle

NextChat ==
    \/ \E h \in Handlers, s \in Senders, t \in Texts : handleMessage(h, s, t)
    \/ \E h \in Handlers, ok \in BOOLEAN : UrlSent(h, ok)
    \/ \E h \in Handlers, success \in BOOLEAN : ExchangeDone(h, success)
    \/ \E h \in Handlers, ok \in BOOLEAN : Sent(h, ok)
    \/ \E h \in Handlers, client \in {"client", "null", "throw"} : GateResolved(h, client)
    \/ \E h \in Handlers, ok \in BOOLEAN : ThinkingSent(h, ok)
    \/ \E h \in Handlers, tool \in Tools, auth \in {"client", "null", "throw"} :
           ToolCall(h, tool, auth)
    \/ \E h \in Handlers : StreamEnds(h)
    \/ \E h \in Handlers : HandlerReturns(h)

SpecChat == InitChat /\ [][NextChat]_vars

----------------------------------------------------------------------------
(* Claims about getAuthenticatedClient, checked under SpecAuth *)

Returned_GAC(p) == procs[p].pc = "done" /\ procs[p].op = "getAuthenticatedClient"

\* C1 (No stale client): a client getAuthenticatedClient returns is built from
\* a credential whose expiry is at least expiryBuffer after the call time.  A
\* credential that carries no expiry at all is left out here, the reading most
\* favourable to the code; the refreshed credential is not.
C1_NoStaleClient ==
    \A p \in Procs :
        (Returned_GAC(p) /\ procs[p].ret = "client" /\ Truthy(procs[p].client.expiry_date))
            => procs[p].client.expiry_date >= procs[p].callNow + expiryBuffer

\* C2 (Merge preserves the refresh token): when the refresh response lacks
\* refresh_token the merged credential keeps the stored one, every field the
\* response lacks keeps its stored value and every field it has takes the
\* response's value.
C2_MergePreservesRefreshToken ==
    \A p \in Procs :
        (Returned_GAC(p) /\ procs[p].outcome = "refreshed") =>
            /\ procs[p].resp.refresh_token = Absent
                   => procs[p].client.refresh_token = procs[p].userToken.refresh_token
            /\ \A f \in Fields :
                   /\ procs[p].resp[f] = Absent => procs[p].client[f] = procs[p].userToken[f]
                   /\ procs[p].resp[f] # Absent => procs[p].client[f] = procs[p].resp[f]

\* a refresh whose response lacks the refresh token and brings a new access
\* token and a new expiry
C2_Witness ==
    \E p \in Procs :
        /\ Returned_GAC(p) /\ procs[p].outcome = "refreshed"
        /\ procs[p].resp.refresh_token = Absent
        /\ Truthy(procs[p].userToken.refresh_token)
        /\ Truthy(procs[p].resp.access_token)
        /\ procs[p].resp.access_token # procs[p].userToken.access_token
        /\ Truthy(procs[p].resp.expiry_date)
        /\ procs[p].resp.expiry_date # procs[p].userToken.expiry_date

\* C3 (Refresh failure is terminal): when the refresh fails the call returns
\* null and a lookup of that user made next finds no credential.
C3_RefreshFailureTerminal ==
    \A p \in Procs :
        (Returned_GAC(p) /\ procs[p].outcome = "refreshFailed") =>
            /\ procs[p].ret = "null"
            /\ ~Lookup(procs[p].user)

----------------------------------------------------------------------------
(* Claims about the availability search, checked under SpecAvail *)

Slots == {result[i] : i \in 1 .. Len(result)}

\* C4 (Slot non-overlap): no returned slot overlaps a busy interval.
C4_SlotNonOverlap ==
    phase = "done" =>
        \A S \in Slots : \A B \in busyTimes : ~(S.start < B.end /\ S.end > B.start)

\* slots were returned although candidates were blocked by busy intervals that
\* overlap each other
C4_Witness ==
    /\ phase = "done"
    /\ result # <<>>
    /\ evaluations > Len(availableSlots)
    /\ \E B1, B2 \in busyTimes : B1 # B2 /\ B1.start < B2.end /\ B2.start < B1.end

\* C5 as stated (Window containment): start and end of every returned slot are
\* inside the half-open window [minHour, maxHour) of one day, and inside the
\* range.
C5_WindowContainmentHalfOpen ==
    phase = "done" =>
        \A S \in Slots :
            /\ SetHours(S.start, req.minStartHour) <= S.start
            /\ S.start < SetHours(S.start, req.maxEndHour)
            /\ SetHours(S.start, req.minStartHour) <= S.end
            /\ S.end < SetHours(S.start, req.maxEndHour)
            /\ req.startDate <= S.start /\ S.end <= req.endDate

\* C5 as amended: the start is in [minHour, maxHour) and the end in
\* (minHour, maxHour] of the day of the start, and both are inside the range.
C5_WindowContainment ==
    phase = "done" =>
        \A S \in Slots :
            /\ SetHours(S.start, req.minStartHour) <= S.start
            /\ S.start < SetHours(S.start, req.maxEndHour)
            /\ SetHours(S.start, req.minStartHour) < S.end
            /\ S.end <= SetHours(S.start, req.maxEndHour)
            /\ req.startDate <= S.start /\ S.end <= req.endDate

\* a slot that ends exactly when the window closes, and a search that crossed
\* into the next day
C5_Witness ==
    /\ phase = "done"
    /\ \E S \in Slots : S.end = SetHours(S.start, req.maxEndHour)
    /\ \E S \in Slots : S.start >= Day

\* C6 (Slot duration exactness): every returned slot lasts the requested
\* duration.
C6_SlotDuration ==
    phase = "done" => \A S \in Slots : S.end - S.start = req.duration

C6_Witness ==
    /\ phase = "done"
    /\ Len(result) >= 2
    /\ req.duration > Step

\* t is inside the working hours of its day
WorkingInstant(t) ==
    SetHours(t, req.minStartHour) <= t /\ t < SetHours(t, req.maxEndHour)

\* the busy intervals cover every working-hours minute of the range
FullyCovered ==
    \A t \in req.startDate .. (req.endDate - 1) :
        WorkingInstant(t) => \E B \in busyTimes : B.start <= t /\ t < B.end

\* C7 (Full coverage implies empty): when the busy intervals cover every
\* working-hours instant of the range the search returns nothing.
C7_FullCoverageEmpty ==
    (phase = "done" /\ FullyCovered) => result = <<>>

\* a covered range that has working hours in it, where candidates were
\* evaluated and blocked
C7_Witness ==
    /\ phase = "done"
    /\ FullyCovered
    /\ \E t \in req.startDate .. (req.endDate - 1) : WorkingInstant(t)
    /\ evaluations > 0
    /\ Cardinality(busyTimes) >= 2

\* C8 (Validation): a request with endDate <= startDate, duration <= 0 or
\* minStartHour >= maxEndHour is rejected before anything is computed.
C8_Validation ==
    (/\ phase # "start"
     /\ \/ req.endDate <= req.startDate
        \/ req.duration <= 0
        \/ req.minStartHour >= req.maxEndHour)
        => (phase = "rejected" /\ iterations = 0 /\ result = <<>>)

C10_ResultCap == Len(result) <= ResultCap

\* more than 10 slots were accepted and 10 returned
C10_Witness ==
    /\ phase = "done"
    /\ Len(availableSlots) > ResultCap
    /\ Len(result) = ResultCap

\* C11 (Chronological order): the returned slots are in strictly increasing
\* order of start time, whatever busy intervals the calendar answered with.
C11_ChronologicalOrder ==
    phase = "done" =>
        \A i, j \in 1 .. Len(result) : i < j => result[i].start < result[j].start

\* several slots were returned, on both sides of a blocked stretch, from busy
\* intervals that overlap each other
C11_Witness ==
    /\ phase = "done"
    /\ Len(result) >= 3
    /\ \E B1, B2 \in busyTimes : B1 # B2 /\ B1.start < B2.end /\ B2.start < B1.end
    /\ \E i \in 1 .. (Len(result) - 1) : result[i + 1].start > result[i].start + Step

----------------------------------------------------------------------------
(* Claims about the credential store, checked under SpecAuth *)

Done(p) == procs[p].pc = "done"

WriteFailed(p) == procs[p].write \in {"refused", "partial"}

\* C12 (Cache never diverges from disk on write failure): after a put or a
\* delete whose durable write failed, the cached mapping is the mapping the
\* cache held before the put or delete.
C12_CacheUnchangedOnFailedWrite ==
    \A p \in Procs :
        (Done(p) /\ WriteFailed(p)) => heap[userTokensCache] = procs[p].before

\* C13 (Persistence errors are propagated): after a failed durable write
\* exchangeCodeForToken does not return true and getAuthenticatedClient does
\* not return a client.
C13_PersistenceErrorPropagated ==
    \A p \in Procs :
        (Done(p) /\ WriteFailed(p)) => procs[p].ret \notin {"true", "client"}

\* the credential a lookup of u returns (u has one)
Stored(u) ==
    IF DOMAIN heap[userTokensCache] # {} THEN heap[userTokensCache][u] ELSE disk.data[u]

\* the store changed under p's feet: when p's refresh came back the cache no
\* longer held for p's user the credential p had read before it suspended
Raced(p) ==
    procs[p].user \in DOMAIN procs[p].before
        => procs[p].before[procs[p].user] # procs[p].userToken

\* C14 (Concurrent-refresh race): nothing locks a user's credential across the
\* await of the refresh.  When the store changed while a call was suspended,
\* the call's write-through still wins: after a resolved refresh the store
\* holds the response merged over the credential the call read before it
\* suspended, after a rejected refresh it holds nothing for the user, whatever
\* another call had stored meanwhile.
C14_SecondWriteThroughWins ==
    \A p \in Procs :
        (Returned_GAC(p) /\ Raced(p) /\ procs[p].write = "ok") =>
            /\ procs[p].outcome \in {"refreshed", "refreshFailed"}
            /\ disk = Json(heap[userTokensCache])
            /\ procs[p].outcome = "refreshed" =>
                   /\ Lookup(procs[p].user)
                   /\ \A f \in Fields :
                          Stored(procs[p].user)[f] =
                              IF procs[p].resp[f] # Absent THEN procs[p].resp[f]
                              ELSE procs[p].userToken[f]
            /\ procs[p].outcome = "refreshFailed" => ~Lookup(procs[p].user)

\* the race: another call's refresh had stored a credential with a new refresh
\* token for the same user, and this call's write-through put the old refresh
\* token back
C14_Witness ==
    \E p \in Procs :
        /\ Returned_GAC(p) /\ procs[p].outcome = "refreshed" /\ procs[p].write = "ok"
        /\ procs[p].user \in DOMAIN procs[p].before
        /\ \E k \in (1 .. MaxCalls) \ {procs[p].call} :
               procs[p].before[procs[p].user].refresh_token = Issued(k)
        /\ Stored(procs[p].user).refresh_token = procs[p].userToken.refresh_token
        /\ procs[p].userToken.refresh_token # Issued(procs[p].call)

\* a successful code exchange for u returns in this step
ExchangeStores(u) ==
    \E p \in Procs :
        /\ procs[p].pc = "exchanging" /\ procs[p].user = u
        /\ procs'[p].pc = "done" /\ procs'[p].ret = "true"

\* a refresh for u fails in this step
RefreshFails(u) ==
    \E p \in Procs :
        /\ procs[p].pc = "refreshing" /\ procs[p].user = u
        /\ procs'[p].pc = "done" /\ procs'[p].outcome = "refreshFailed"

\* C15 (Credential lifecycle): a lookup starts to find a credential for a user
\* only in a step where a code exchange for that user succeeds, and stops
\* finding it only in a step where a refresh for that user fails.
C15_CredentialLifecycle ==
    [][\A u \in Users :
           /\ (~Lookup(u) /\ Lookup(u)') => ExchangeStores(u)
           /\ (Lookup(u) /\ ~Lookup(u)') => RefreshFails(u)]_vars

\* C16 (Refresh success is persisted): after a refresh that succeeded the
\* returned client carries the merged credential (the stored refresh token
\* when the response has none, the response's access token and expiry), a
\* lookup of the user returns that credential, and user-tokens.json holds it.
C16_RefreshPersisted ==
    \A p \in Procs :
        (Returned_GAC(p) /\ procs[p].outcome = "refreshed") =>
            /\ procs[p].ret = "client"
            /\ procs[p].resp.refresh_token = Absent
                   => procs[p].client.refresh_token = procs[p].userToken.refresh_token
            /\ \A f \in {"access_token", "expiry_date"} :
                   procs[p].resp[f] # Absent => procs[p].client[f] = procs[p].resp[f]
            /\ Lookup(procs[p].user)
            /\ Stored(procs[p].user) = procs[p].client
            /\ disk.kind = "json"
            /\ procs[p].user \in DOMAIN disk.data
            /\ disk.data[procs[p].user] = procs[p].client

\* C17 (Code exchange failure leaves the store unchanged): an exchange the
\* provider rejects, or whose payload lacks the access token or the refresh
\* token, returns false and leaves the cache and user-tokens.json as they were;
\* an exchange returns true only when the new credential has been written
\* under its user.
C17_ExchangeFailureLeavesStore ==
    [][\A p \in Procs :
           (procs[p].pc = "exchanging" /\ procs'[p].pc = "done") =>
               /\ procs'[p].outcome \in {"rejected", "incomplete"} =>
                      /\ procs'[p].ret = "false"
                      /\ UNCHANGED <<heap, userTokensCache, disk>>
               /\ procs'[p].ret = "true" =>
                      /\ disk'.kind = "json"
                      /\ procs[p].user \in DOMAIN disk'.data
                      /\ disk'.data[procs[p].user] = procs'[p].resp
                      /\ Lookup(procs[p].user)'
                      /\ Stored(procs[p].user)' = procs'[p].resp]_vars

\* C18 (Cold-cache load happens once): user-tokens.json is read at most once
\* in the life of the process.
C18_LoadOnce == diskReads <= 1

\* the call returned from getAuthenticatedClient's entry (lines 104-112) and
\* there is no credential on file for its user
NoCredentialOnFile(p) ==
    /\ procs[p].outcome \notin {"refreshed", "refreshFailed"}
    /\ ~Lookup(procs[p].user)

\* C19 (AuthRequired is a value): a getAuthenticatedClient call for a user
\* with no credential on file, or whose refresh fails, returns null; it does
\* not throw.
C19_AuthRequiredIsValue ==
    \A p \in Procs :
        (Returned_GAC(p) /\ (NoCredentialOnFile(p) \/ procs[p].outcome = "refreshFailed"))
            => procs[p].ret = "null"

\* null was returned for a user without a credential while the client
\* configuration could not have been loaded
C19_Witness ==
    \E p \in Procs :
        /\ Returned_GAC(p) /\ NoCredentialOnFile(p)
        /\ procs[p].ret = "null"
        /\ ~CredentialsLoadable

----------------------------------------------------------------------------
(* More claims about the availability search, checked under SpecAvail *)

\* the positions of execute at or after the call of getCalendarService (line
\* 414), the first thing execute does outside its own arguments: it reads the
\* credential store, may refresh and write the credential, and is followed by
\* the calendar listing
PastValidation == phase \notin {"start", "rejected"}

\* C21 (Invalid range short-circuits): a request with endDate <= startDate is
\* rejected before getCalendarService is called, so before any read of the
\* credential store, durable write, token refresh or calendar listing.
C21_InvalidRangeShortCircuits ==
    req.endDate <= req.startDate =>
        (~PastValidation /\ busyTimes = {} /\ iterations = 0 /\ result = <<>>)

\* a request that is well-formed but for the order of its dates was rejected
C21_Witness ==
    /\ phase = "rejected"
    /\ req.endDate <= req.startDate
    /\ req.startDate # InvalidDate /\ req.userId # ""
    /\ SchemaAccepts(req)

\* the busy intervals that share an instant with the candidate [t, t + duration)
Blocking(t) == {B \in busyTimes : B.start < t + req.duration /\ t < B.end}

\* this step is a loop pass that reached the overlap test
Evaluates == phase = "loop" /\ evaluations' = evaluations + 1

\* C25 (Blocking-interval jump): when the candidate at the cursor overlaps at
\* least one busy interval, that loop pass moves the cursor to the greatest
\* end among the overlapping intervals, which is later than the cursor, and
\* accepts no slot.
C25_BlockingIntervalJump ==
    [][(Evaluates /\ Blocking(currentTime) # {}) =>
          /\ \E B \in Blocking(currentTime) : currentTime' = B.end
          /\ \A B \in Blocking(currentTime) : B.end <= currentTime'
          /\ currentTime' > currentTime
          /\ availableSlots' = availableSlots
          /\ iterations' = iterations + 1]_vars

\* the first pass met a candidate blocked by two intervals with different ends
\* and left the cursor at the later end, with nothing accepted
C25_Witness ==
    /\ phase = "loop"
    /\ iterations = 1 /\ evaluations = 1 /\ availableSlots = <<>>
    /\ \E B1, B2 \in Blocking(req.startDate) : B1.end < B2.end /\ currentTime = B2.end

\* a slot of the requested duration can start at minute t: it starts in the
\* range and ends by its end, lies inside the working window of the day of t,
\* and shares no instant with a busy interval
Fits(t) ==
    /\ req.startDate <= t /\ t + req.duration <= req.endDate
    /\ SetHours(t, req.minStartHour) <= t
    /\ t + req.duration <= SetHours(t, req.maxEndHour)
    /\ \A B \in busyTimes : ~(B.start < t + req.duration /\ t < B.end)

\* C26 (Earliest fit): the first returned slot starts at the earliest minute
\* of the range at which a slot fits, and the result is empty only if no slot
\* fits anywhere in the range.
C26_EarliestFit ==
    phase = "done" =>
        IF \E t \in req.startDate .. req.endDate : Fits(t)
        THEN /\ result # <<>>
             /\ Fits(result[1].start)
             /\ \A t \in req.startDate .. (result[1].start - 1) : ~Fits(t)
        ELSE result = <<>>

\* the first returned slot starts where a busy interval ends, on a later day
\* than the range starts, after blocked candidates and window jumps
C26_Witness ==
    /\ phase = "done"
    /\ result # <<>>
    /\ result[1].start >= Day
    /\ \E B \in busyTimes : B.end = result[1].start
    /\ evaluations > Len(availableSlots)
    /\ iterations > evaluations

\* this step is one pass of the search loop
LoopPass == phase = "loop" /\ iterations' = iterations + 1

\* C27 (Termination of the slot search): for every request that passes the
\* checks of the schema and of execute, and every set of busy intervals, each
\* pass of the loop moves the cursor strictly forward, and the loop, once
\* entered, is left and the result returned.
C27_SearchTerminates ==
    /\ [][LoopPass => currentTime' > currentTime]_vars
    /\ (phase = "loop" ~> phase = "done")

\* a search with an empty daily window (minStartHour >= maxEndHour) ended
\* after several passes, none of which reached the overlap test
C27_Witness ==
    /\ phase = "done"
    /\ req.minStartHour >= req.maxEndHour
    /\ iterations >= 2 /\ evaluations = 0

----------------------------------------------------------------------------
(* More claims about the credential operations, checked under SpecAuth *)

\* this step is the synchronous start of getAuthenticatedClient(u) in slot p
StartsGAC(p, u) ==
    /\ procs[p].pc = "idle"
    /\ procs'[p].pc # "idle"
    /\ procs'[p].op = "getAuthenticatedClient"
    /\ procs'[p].user = u

\* the step awaits no refresh and changes neither the file nor the mapping the
\* store hands out (a cache that was empty is filled from the file)
NoRefreshNoChange(p) ==
    /\ procs'[p].pc = "done"
    /\ disk' = disk
    /\ heap'[userTokensCache'] = StoreView

\* the stored credential of u expires at least expiryBuffer after now
ValidFor(u) ==
    /\ u \in DOMAIN StoreView
    /\ StoreView[u].expiry_date >= now + expiryBuffer

\* C22 as stated (No refresh when not needed): when the stored credential's
\* expiry is at least expiryBuffer after the call time, getAuthenticatedClient
\* makes no refresh call, leaves the cache and the durable mapping unchanged
\* and returns a client built from the stored credential.
C22_NoRefreshReturnsClient ==
    [][\A p \in Procs, u \in Users :
          (StartsGAC(p, u) /\ ValidFor(u)) =>
              /\ NoRefreshNoChange(p)
              /\ procs'[p].ret = "client"
              /\ procs'[p].client = StoreView[u]]_vars

\* C22 amended: as above when the client configuration can be loaded; when
\* google-credentials.json is missing and was never loaded the call throws,
\* still without a refresh call and without changing the cache or the file.
C22_NoRefreshWhenNotNeeded ==
    [][\A p \in Procs, u \in Users :
          (StartsGAC(p, u) /\ ValidFor(u)) =>
              /\ NoRefreshNoChange(p)
              /\ IF CredentialsLoadable
                 THEN procs'[p].ret = "client" /\ procs'[p].client = StoreView[u]
                 ELSE procs'[p].ret = "throw"]_vars

\* a call found a credential that expires exactly expiryBuffer after the call
\* time, read from the file, and returned a client without refreshing
C22_Witness ==
    \E p \in Procs :
        /\ Done(p) /\ procs[p].op = "getAuthenticatedClient"
        /\ procs[p].outcome = "valid" /\ procs[p].ret = "client"
        /\ procs[p].load = "file"
        /\ procs[p].client.expiry_date = procs[p].callNow + expiryBuffer

\* C23 (Absent credential short-circuits): when no credential is stored for
\* userId, getAuthenticatedClient returns null without a refresh call and
\* without changing the cache or the durable mapping.
C23_AbsentCredentialShortCircuits ==
    [][\A p \in Procs, u \in Users :
          (StartsGAC(p, u) /\ u \notin DOMAIN StoreView) =>
              /\ NoRefreshNoChange(p)
              /\ procs'[p].ret = "null"]_vars

\* null was returned for a user without a credential while another user's
\* credential is stored and was read from the file by this call
C23_Witness ==
    \E p \in Procs :
        /\ Done(p) /\ procs[p].op = "getAuthenticatedClient"
        /\ procs[p].outcome = "noToken" /\ procs[p].ret = "null"
        /\ procs[p].load = "file"
        /\ DOMAIN heap[userTokensCache] = Users \ {procs[p].user}

\* both tokens of a credential are there and not empty
Complete(c) == Truthy(c.access_token) /\ Truthy(c.refresh_token)

\* C29 (Stored credentials are always complete): every credential in the
\* cached mapping or in user-tokens.json has a non-empty access token and a
\* non-empty refresh token, whatever exchanges and refreshes have run and
\* whichever fields their responses left out.
C29_StoredCredentialsComplete ==
    /\ \A u \in DOMAIN heap[userTokensCache] : Complete(heap[userTokensCache][u])
    /\ disk.kind = "json" => \A u \in DOMAIN disk.data : Complete(disk.data[u])

\* a refresh whose response left out the refresh token was merged and written:
\* the cache and the file hold its result
C29_Witness ==
    \E p \in Procs :
        /\ Returned_GAC(p) /\ procs[p].outcome = "refreshed" /\ procs[p].write = "ok"
        /\ procs[p].resp.refresh_token = Absent
        /\ procs[p].resp.access_token # Absent
        /\ procs[p].user \in DOMAIN heap[userTokensCache]
        /\ heap[userTokensCache][procs[p].user] = procs[p].client
        /\ disk = Json(heap[userTokensCache])

----------------------------------------------------------------------------
(* Isolation between users, checked under SpecIsolation *)

\* this step is the return of the call in slot p
Completes(p) == procs[p].pc # "done" /\ procs'[p].pc = "done"

\* C28 (Cross-user isolation): a call made for one user, at whatever point of
\* the other calls it resumes, leaves every other user's credential in the
\* cached mapping and in user-tokens.json as it was.
C28_CrossUserIsolation ==
    [][\A p \in Procs : Completes(p) =>
          \A B \in Users \ {procs'[p].user} :
              /\ B \in DOMAIN heap[userTokensCache] =>
                     /\ B \in DOMAIN heap'[userTokensCache']
                     /\ heap'[userTokensCache'][B] = heap[userTokensCache][B]
              /\ (disk.kind = "json" /\ B \in DOMAIN disk.data) =>
                     /\ disk'.kind = "json"
                     /\ B \in DOMAIN disk'.data
                     /\ disk'.data[B] = disk.data[B]]_vars

----------------------------------------------------------------------------
(* Claims about the chat layer, checked under SpecChat *)

\* C24 (Auth gate before provider-backed actions): a message is streamed to
\* an agent only after getAuthenticatedClient, called for its sender in the
\* same handling, returned a client; when it returned null the message goes
\* to no agent and the handler only sends the warning; and a tool called by
\* the agent asks getAuthenticatedClient for its service and ends with the
\* authentication-required error when that returns null.
C24_AuthGate ==
    \A h \in Handlers :
        /\ handlers[h].route = "agent" =>
               /\ handlers[h].client = "client"
               /\ handlers[h].askedFor = handlers[h].user
               /\ ~IsCommand(handlers[h].text) /\ HasText(handlers[h].text)
        /\ handlers[h].client = "null" =>
               /\ handlers[h].route = "none"
               /\ handlers[h].pc \in {"sendingGate", "done"}
               /\ handlers[h].auth = "none"
        /\ handlers[h].auth # "none" => handlers[h].route = "agent"
        /\ handlers[h].auth = "null" => handlers[h].tool = "authRequired"

\* one message passed the gate and its tool call found no credential any
\* more, while another message of the same run is stopped at the gate
C24_Witness ==
    \E h, g \in Handlers :
        /\ handlers[h].route = "agent" /\ handlers[h].client = "client"
        /\ handlers[h].auth = "null" /\ handlers[h].tool = "authRequired"
        /\ ~handlers[h].text.slash
        /\ handlers[g].pc = "sendingGate" /\ handlers[g].client = "null"
        /\ ~handlers[g].text.slash

\* this step starts the handler of a message in slot h
Arrives(h) == handlers[h].pc = "idle" /\ handlers'[h].pc # "idle"

\* C30 (Auth-code session is one-shot): a chat enters awaitingAuthCodeUsers
\* only in the step in which the authorization URL of a /connect_google from
\* that chat was delivered; a text longer than 20 characters arriving from an
\* awaiting chat is taken as the code: the chat is out of the set when
\* exchangeCodeForToken is called, the message goes to no command and no
\* agent, and whatever the exchange returns puts nothing back; so the
\* exchanges made for a chat, plus one if it is awaiting, never exceed the
\* URLs delivered to it.
C30_AuthCodeOneShot ==
    /\ [](\A c \in Chats :
             exchanges[c] + (IF c \in awaitingAuthCodeUsers THEN 1 ELSE 0) <= urlsSent[c])
    /\ [](\A h \in Handlers :
             handlers[h].route = "code" =>
                 /\ handlers[h].pc \in {"exchanging", "sendingResult", "done"}
                 /\ handlers[h].client = "none" /\ handlers[h].auth = "none")
    /\ [][\A c \in Chats :
             (c \notin awaitingAuthCodeUsers /\ c \in awaitingAuthCodeUsers') =>
                 \E h \in Handlers :
                     /\ handlers[h].pc = "sendingUrl" /\ handlers'[h].pc = "done"
                     /\ handlers[h].chat = c
                     /\ handlers[h].text.text = "/connect_google"
                     /\ urlsSent'[c] = urlsSent[c] + 1]_vars
    /\ [][\A h \in Handlers :
             (/\ Arrives(h)
              /\ handlers'[h].chat \in awaitingAuthCodeUsers
              /\ handlers'[h].text.length > CodeLength) =>
                 /\ handlers'[h].chat \notin awaitingAuthCodeUsers'
                 /\ handlers'[h].route = "code"
                 /\ handlers'[h].pc = "exchanging"
                 /\ exchanges'[handlers'[h].chat] = exchanges[handlers'[h].chat] + 1
                 /\ userAgents' = userAgents]_vars
    /\ [][\A h \in Handlers :
             (handlers[h].pc = "exchanging" /\ handlers'[h].pc # "exchanging") =>
                 awaitingAuthCodeUsers' = awaitingAuthCodeUsers]_vars

\* after one /connect_google a long text was taken as the code and its
\* exchange failed; the next long text from that chat went to the gate
C30_Witness ==
    \E h, g \in Handlers :
        /\ handlers[h].route = "code" /\ handlers[h].pc = "sendingResult"
        /\ handlers[h].outcome = "failed"
        /\ handlers[g].chat = handlers[h].chat
        /\ handlers[g].pc = "gate"
        /\ handlers[g].text.length > CodeLength
        /\ urlsSent[handlers[h].chat] = 1 /\ exchanges[handlers[h].chat] = 1
        /\ handlers[h].chat \notin awaitingAuthCodeUsers

====
